---- MODULE Spec2Model ----
(***************************************************************************)
(* State-machine model of the MCTP serial-link manager (MctpSerialLink.py)  *)
(* and of the singleton bus controller (MctpBusController.py).              *)
(*                                                                         *)
(* The program is single threaded.  A controller construction is a          *)
(* sequence of steps (configuration, one step per serial link, the daemon   *)
(* restart, one step per stabilization poll); pc holds the controller whose *)
(* constructor is running, and no other call of the program runs meanwhile. *)
(* The operating system is the environment: it decides whether a device     *)
(* path exists, whether an interface appears, the exit status of the mctp   *)
(* tool, the answers of the daemon, how long a walk takes, and when a       *)
(* link-binding process exits on its own.                                   *)
(***************************************************************************)
EXTENDS Integers, Sequences, FiniteSets, TLC

----------------------------------------------------------------------------
(* Bounds of the model *)

\* MctpSerialLink objects that exist at one time: a caller keeps the links it
\* has closed, an object whose __init__ raised is destroyed
MaxLinks == 3
\* MctpBusController objects that exist at one time: a caller keeps the
\* controllers it has closed, an object whose __init__ raised is destroyed
MaxCtrls == 3
\* largest number written in a dynamic_eid_range declaration
MaxEid == 2
\* largest endpoint count a discovery walk returns
MaxCount == 1
\* longest duration of one discovery walk, in seconds
MaxWalk == 1

\* most lines of a config file
MaxLines == 2

\* most nodes of the bus object tree below its root
MaxNodes == 4

\* longest duration of one query of the OS interface list, in milliseconds
MaxQueryMs == 50

(* Program constants *)

\* timeout = 30 (seconds) of the stabilization loop
StabilizationTimeout == 30
\* time.sleep(1) between two polls
PollInterval == 1
\* previous_count = -1 before the first poll
InitialPreviousCount == -1

\* timeout=2 (seconds) of _wait_for_new_interface, in milliseconds
WaitTimeoutMs == 2000
\* time.sleep(0.1) between two queries of the interface list, in milliseconds
WaitSleepMs == 100

\* Python's None for the numeric fields (EIDs, pids and names are >= 1)
None == 0
\* Python's None for the device path
NoPath == "None"

LinkIds == 1..MaxLinks
CtrlIds == 1..MaxCtrls
Eids == 1..MaxEid
\* serial device paths a glob pattern can resolve to
Paths == {"ttyUSB0", "ttyUSB1"}
\* the device paths callers open serial links of their own on
StandalonePaths == {"ttyUSB0"}
\* names the kernel gives the interfaces of bound serial devices
IfNames == 1..MaxLinks
Counts == 0..MaxCount

\* a config source: no file, a file without the keyword line, a keyword line
\* without a well-formed bracket pair, or a keyword line "[a, b]"
Configs ==
  { [kind |-> k, a |-> 0, b |-> 0] : k \in {"missing", "noline", "malformed"} }
    \cup { [kind |-> "pair", a |-> x, b |-> y] : x \in 0..MaxEid, y \in 0..MaxEid }

\* a line of a config file: one that does not start with the keyword ("other"),
\* a keyword line without a well-formed bracket pair, or a keyword line "[a, b]"
ConfigLines ==
  { [kind |-> k, a |-> 0, b |-> 0] : k \in {"other", "malformed"} }
    \cup { [kind |-> "pair", a |-> x, b |-> y] : x \in 0..MaxEid, y \in 0..MaxEid }

\* a config file path: no file there, or a file of some lines
ConfigFiles ==
  { [exists |-> FALSE, lines |-> <<>>] }
    \cup { [exists |-> TRUE, lines |-> s] :
             s \in UNION { [1..n -> ConfigLines] : n \in 0..MaxLines } }

\* the search patterns of a construction: each pattern stands for the set of
\* device paths glob.glob() resolves it to
ArgLists ==
  { <<>>, <<{}>>, <<{"ttyUSB0"}>>, <<{"ttyUSB0", "ttyUSB1"}>>,
    <<{"ttyUSB0"}, {"ttyUSB1"}>>, <<{"ttyUSB0"}, {"ttyUSB0", "ttyUSB1"}>> }

\* what the environment lets happen to one open(): the first step that goes
\* wrong outside the program, or none
OpenEnvs == {"nopath", "noif", "upfail", "addrfail", "ok"}

----------------------------------------------------------------------------
VARIABLES
  links,            \* the MctpSerialLink objects, by identity ("unborn": the
                    \* identity is free, no such object exists)
  assigned_links,   \* MctpSerialLink._assigned_links (a list)
  allocated_eids,   \* MctpSerialLink._allocated_eids (a list)
  procs,            \* the link-binding child processes ("none": not spawned,
                    \* "running", "gone": no such pid); the pid of link l's is l
  ifaces,           \* interface names of bound serial devices the OS lists
  ctrls,            \* the MctpBusController objects, by identity
  instance,         \* MctpBusController._instance (None or a controller)
  daemon,           \* whether mctpd.service is active
  pc,               \* the controller whose __init__ is running, or None
  last              \* the call that runs or ran last: its error, and what a
                    \* controller construction has done so far

vars == <<links, assigned_links, allocated_eids, procs, ifaces, ctrls,
          instance, daemon, pc, last>>

----------------------------------------------------------------------------
(* Lists *)

SeqToSet(s) == { s[i] : i \in DOMAIN s }

Contains(s, x) == \E i \in DOMAIN s : s[i] = x

\* a variant that removes nothing
RemoveNothing(s, x) == s

\* list.remove(x): removes the first occurrence
Remove(s, x) ==
  LET i == CHOOSE k \in DOMAIN s : s[k] = x /\ \A j \in 1..(k-1) : s[j] # x
  IN  SubSeq(s, 1, i-1) \o SubSeq(s, i+1, Len(s))

Min(x, y) == IF x <= y THEN x ELSE y
Max(x, y) == IF x >= y THEN x ELSE y

----------------------------------------------------------------------------
(* MctpSerialLink *)

\* no link object: before __init__ has run, and after the object is destroyed
UnbornLink ==
  [st |-> "unborn", eid |-> None, link_pid |-> None, link_name |-> None,
   device_path |-> NoPath, candidate |-> TRUE]

\* the registries, the objects and the OS resources a link call reads and writes
Heap ==
  [links |-> links, assigned_links |-> assigned_links,
   allocated_eids |-> allocated_eids, procs |-> procs, ifaces |-> ifaces]

SetHeap(h) ==
  /\ links' = h.links
  /\ assigned_links' = h.assigned_links
  /\ allocated_eids' = h.allocated_eids
  /\ procs' = h.procs
  /\ ifaces' = h.ifaces

\* a variant that forgets the process-wide pool: every candidate remains
RemainingEidsIgnoringPool(allowed, allocated) == allowed \cap Eids

\* a variant that forgets the candidates: every free EID remains
RemainingEidsAnyFree(allowed, allocated) == Eids \ SeqToSet(allocated)

\* remaining_eids = list(set(allowed_eids) - set(_allocated_eids))
RemainingEids(allowed, allocated) == allowed \ SeqToSet(allocated)

\* the interface the kernel creates for the binding process of link l
KernelName(l) == l

\* _wait_for_new_interface(initial_interfaces), current being what the OS lists
\* while it polls: a name of current - initial, or None on timeout
WaitForNewInterface(initial, current) ==
  IF current \ initial = {} THEN None
  ELSE CHOOSE n \in current \ initial : TRUE

\* the exception MctpSerialLink.__init__ raises, or "ok"
OpenError(h, allowed, env) ==
  IF RemainingEids(allowed, h.allocated_eids) = {} THEN "NoEid"
  ELSE IF env = "nopath"   THEN "NotFound"
  ELSE IF env = "noif"     THEN "IfTimeout"
  ELSE IF env = "upfail"   THEN "UpFailed"
  ELSE IF env = "addrfail" THEN "AddrFailed"
  ELSE "ok"

\* a variant that registers the link before the address is assigned
RegistersBeforeAddress(err) == err \in {"ok", "AddrFailed"}

\* lines 100-102 are reached: no assertion before them has failed
Registers(err) == err = "ok"

\* MctpSerialLink.__init__(device_path, allowed_eids) on the new object l, with
\* next_eid the element remaining_eids[0] of the remaining set
OpenLink(h, l, path, allowed, env, next_eid) ==
  LET err     == OpenError(h, allowed, env)
      valid   == err \notin {"NoEid", "NotFound"}
      spawned == valid
      named   == err \in {"UpFailed", "AddrFailed", "ok"}
      current == IF named THEN h.ifaces \cup {KernelName(l)} ELSE h.ifaces
      name    == WaitForNewInterface(h.ifaces, current)
      obj     == [st          |-> IF err = "ok" THEN "active" ELSE "failed",
                  eid         |-> IF err = "ok" THEN next_eid ELSE None,
                  link_pid    |-> IF spawned THEN l ELSE None,
                  link_name   |-> IF spawned THEN name ELSE None,
                  device_path |-> IF valid THEN path ELSE NoPath,
                  candidate   |-> err = "ok" => next_eid \in allowed]
  IN  [err |-> err,
       h   |-> [links          |-> [h.links EXCEPT ![l] = obj],
                procs          |-> IF spawned
                                   THEN [h.procs EXCEPT ![l] = "running"]
                                   ELSE h.procs,
                ifaces         |-> current,
                assigned_links |-> IF Registers(err)
                                   THEN Append(h.assigned_links, l)
                                   ELSE h.assigned_links,
                allocated_eids |-> IF Registers(err)
                                   THEN Append(h.allocated_eids, next_eid)
                                   ELSE h.allocated_eids]]

\* os.kill(pid, SIGTERM) raises ProcessLookupError when no such process exists
KillRaises(h, pid) == h.procs[pid] = "gone"

\* MctpSerialLink.close() on object l
CloseLink(h, l) ==
  LET L == h.links[l]
  IN  IF L.link_pid # None /\ KillRaises(h, L.link_pid)
      THEN [raised |-> TRUE, h |-> h]
      ELSE [raised |-> FALSE,
            h |-> [links |-> [h.links EXCEPT ![l] =
                               [@ EXCEPT !.st = IF @ = "active" THEN "closed" ELSE @,
                                         !.eid = None,
                                         !.link_pid = None,
                                         !.link_name = None,
                                         !.device_path = NoPath]],
                   procs |-> IF L.link_pid # None
                             THEN [h.procs EXCEPT ![L.link_pid] = "gone"]
                             ELSE h.procs,
                   ifaces |-> IF L.link_pid # None
                              THEN h.ifaces \ {L.link_name}
                              ELSE h.ifaces,
                   assigned_links |-> IF Contains(h.assigned_links, l)
                                      THEN Remove(h.assigned_links, l)
                                      ELSE h.assigned_links,
                   allocated_eids |-> IF Contains(h.allocated_eids, L.eid)
                                      THEN Remove(h.allocated_eids, L.eid)
                                      ELSE h.allocated_eids]]

\* the next MctpSerialLink object to be constructed
NextLink ==
  IF \E l \in LinkIds : links[l].st = "unborn"
  THEN CHOOSE l \in LinkIds : links[l].st = "unborn"
                               /\ \A m \in 1..(l-1) : links[m].st # "unborn"
  ELSE None

\* __del__ of a link object: close() with whatever it raises ignored; the object
\* is gone afterwards
DelLink(h, l) ==
  LET r == CloseLink(h, l)
  IN  [r.h EXCEPT !.links = [@ EXCEPT ![l] = UnbornLink],
                  !.procs = [@ EXCEPT ![l] = "none"]]

\* the runtime destroys the link objects of s nothing refers to any more
RECURSIVE DelEach(_, _, _)
DelEach(h, s, i) ==
  IF i > Len(s) THEN h ELSE DelEach(DelLink(h, s[i]), s, i + 1)

----------------------------------------------------------------------------
(* MctpBusController *)

\* no controller object: before __init__ has run, and after it raised
UnbornCtrl ==
  [st |-> "unborn", eid_range |-> {}, serial_links |-> <<>>, file_list |-> {},
   previous_count |-> InitialPreviousCount, elapsed |-> 0]

\* a config source that yields no usable range: missing, without the keyword
\* line, malformed, or with a bound of zero
UnusableConfig(cfg) ==
  \/ cfg.kind \in {"missing", "noline", "malformed"}
  \/ cfg.kind = "pair" /\ (cfg.a = 0 \/ cfg.b = 0)

\* what a construction was given as its config source
ConfigGiven(cfg) == IF UnusableConfig(cfg) THEN "unusable" ELSE "usable"

\* the record of a call: op and obj name it, err is "ok", "pending" or the
\* exception it raised.  Of a link open it also tells: missing, the device
\* path did not exist.  Of a controller construction it also tells: config,
\* the config source it read ("none" when it read none); matched, the device
\* paths its patterns resolved to (none before they are resolved); short, the
\* matched paths outnumbered the free EIDs of the range when the provisioning loop began; spawned,
\* it has run a link-binding process; daemon_ops, its calls of the service
\* manager; polls, the counts of its last two walks; late, its last walk ended
\* after the stabilization window
Call(op, obj, err) ==
  [op |-> op, obj |-> obj, err |-> err, missing |-> FALSE, config |-> "none",
   matched |-> {}, short |-> FALSE, spawned |-> FALSE, daemon_ops |-> <<>>, polls |-> <<>>, late |-> FALSE]

\* open(config_file_path) and the for loop over its lines: the first line that
\* starts with the keyword decides, the lines after it are not read
ReadConfig(file) ==
  IF ~file.exists THEN [kind |-> "missing", a |-> 0, b |-> 0]
  ELSE LET kw == { i \in DOMAIN file.lines : file.lines[i].kind # "other" }
       IN  IF kw = {} THEN [kind |-> "noline", a |-> 0, b |-> 0]
           ELSE file.lines[CHOOSE i \in kw : \A j \in kw : i <= j]

\* a variant that builds range(start, end): the upper bound left out
ParseEidRangeExclusive(cfg) ==
  IF cfg.kind # "pair" THEN [eid_range |-> {}, exc |-> "AssertionError"]
  ELSE LET start == Min(cfg.a, cfg.b)
           end   == Max(cfg.a, cfg.b)
       IN  IF start > 0 /\ end > 0
           THEN [eid_range |-> start..(end - 1), exc |-> "none"]
           ELSE [eid_range |-> {}, exc |-> "AssertionError"]

\* a variant without the assertion on the bounds: a zero bound is accepted
ParseEidRangeZeroAllowed(cfg) ==
  IF cfg.kind # "pair" THEN [eid_range |-> {}, exc |-> "AssertionError"]
  ELSE [eid_range |-> Min(cfg.a, cfg.b)..Max(cfg.a, cfg.b), exc |-> "none"]

\* the body of the try block of _configure_eid_range: the range it assigns and
\* the exception it ends with ("none": it returns)
ParseEidRange(cfg) ==
  IF cfg.kind = "missing" THEN [eid_range |-> {}, exc |-> "FileNotFoundError"]
  ELSE IF cfg.kind = "noline" THEN [eid_range |-> {}, exc |-> "AssertionError"]
  ELSE IF cfg.kind = "malformed" THEN [eid_range |-> {}, exc |-> "AssertionError"]
  ELSE LET start == Min(cfg.a, cfg.b)
           end   == Max(cfg.a, cfg.b)
       IN  IF start > 0 /\ end > 0
           THEN [eid_range |-> start..end, exc |-> "none"]
           ELSE [eid_range |-> {}, exc |-> "AssertionError"]

\* the except clauses of _configure_eid_range: FileNotFoundError and every
\* other Exception are printed, and the method returns
Propagates(exc) == exc \notin {"none", "FileNotFoundError", "AssertionError"}

\* _configure_eid_range(config_file_path): self._eid_range afterwards, and
\* whether the call raises
ConfigureEidRange(cfg) ==
  LET r == ParseEidRange(cfg)
  IN  [eid_range |-> r.eid_range, raised |-> Propagates(r.exc)]

\* the device paths glob.glob() finds for the patterns of a call
Matched(args) == { p \in Paths : \E i \in DOMAIN args : p \in args[i] }

\* a variant that keeps the matches of the last pattern only
FileListLastPattern(args) == IF Len(args) = 0 THEN {} ELSE args[Len(args)]

\* file_list: the matches of every pattern, deduplicated
FileList(args) == UNION { args[i] : i \in DOMAIN args }

\* the assertion of line 113 that guards the provisioning loop
EnoughEids(file_list, eid_range) ==
  Cardinality(file_list) <= Cardinality(eid_range)

\* the assertions of __init__ before the first link is opened, in order
BeginError(args, conf) ==
  IF instance # None THEN "Singleton"
  ELSE IF Len(args) = 0 THEN "NoPatterns"
  ELSE IF conf.raised THEN "ConfigError"
  ELSE IF FileList(args) = {} THEN "NoDevices"
  ELSE IF ~EnoughEids(FileList(args), conf.eid_range) THEN "NotEnoughEids"
  ELSE "ok"

\* for link in self._serial_links: link.close(), from the i-th link on
RECURSIVE CloseEach(_, _, _)
CloseEach(h, s, i) ==
  IF i > Len(s) THEN [raised |-> FALSE, h |-> h]
  ELSE LET r == CloseLink(h, s[i])
       IN  IF r.raised THEN r ELSE CloseEach(r.h, s, i + 1)

\* the links of close(): each is closed, and self._serial_links.clear() drops
\* the last reference to them; a close() that raises leaves the list as it is
CloseCtrl(h, s) ==
  LET r == CloseEach(h, s, 1)
  IN  IF r.raised THEN r ELSE [raised |-> FALSE, h |-> DelEach(r.h, s, 1)]

\* the singleton slot after close()
ClearedInstance(c) == IF instance # None THEN None ELSE instance

\* a variant that accepts a count that did not fall
StableNotLess(current, previous) == current >= previous

\* a variant that starts the daemon without stopping it
DaemonOpsNoStop(active) == <<"start">>

\* if self._is_service_active(): self._stop_service(); self._start_service():
\* the calls of the service manager, active being what is-active answered
DaemonOps(active) == IF active THEN <<"stop", "start">> ELSE <<"start">>

\* current_count == previous_count
Stable(current, previous) == current = previous

\* time.time() - start_time > timeout
TimedOut(elapsed) == elapsed > StabilizationTimeout

\* the next MctpBusController object to be constructed
NextCtrl ==
  IF \E c \in CtrlIds : ctrls[c].st = "unborn"
  THEN CHOOSE c \in CtrlIds : ctrls[c].st = "unborn"
                               /\ \A m \in 1..(c-1) : ctrls[m].st # "unborn"
  ELSE None

\* a link object whose __init__ raised is destroyed as soon as the exception has
\* been handled: before the caller's next call
NoGarbage == \A l \in LinkIds : links[l].st # "failed"

\* the counts of the last two polls
LastTwo(polls, count) ==
  IF Len(polls) = 0 THEN <<count>> ELSE <<polls[Len(polls)], count>>

----------------------------------------------------------------------------
Init ==
  /\ links = [l \in LinkIds |-> UnbornLink]
  /\ assigned_links = <<>>
  /\ allocated_eids = <<>>
  /\ procs = [l \in LinkIds |-> "none"]
  /\ ifaces = {}
  /\ ctrls = [c \in CtrlIds |-> UnbornCtrl]
  /\ instance = None
  /\ daemon \in BOOLEAN
  /\ pc = None
  /\ last = Call("none", None, "ok")

\* the element remaining_eids[0]: any element of the set difference, in the
\* order Python's set happens to iterate it
NextEids(allowed) ==
  IF RemainingEids(allowed, allocated_eids) = {} THEN {None}
  ELSE RemainingEids(allowed, allocated_eids)

\* a caller constructs a serial link of its own
LinkOpen(path, allowed, env, next_eid) ==
  /\ pc = None
  /\ NoGarbage
  /\ NextLink # None
  /\ next_eid \in NextEids(allowed)
  /\ LET r == OpenLink(Heap, NextLink, path, allowed, env, next_eid)
     IN  /\ SetHeap(r.h)
         /\ last' = [Call("link_open", NextLink, r.err) EXCEPT
                       !.missing = (env = "nopath")]
  /\ UNCHANGED <<ctrls, instance, daemon, pc>>

\* a caller closes a link it holds: one it constructed, or one of the registry
LinkClose(l) ==
  /\ pc = None
  /\ NoGarbage
  /\ links[l].st \in {"active", "closed"}
  /\ LET r == CloseLink(Heap, l)
     IN  /\ SetHeap(r.h)
         /\ last' = Call("link_close", l,
                          IF r.raised THEN "ProcessLookupError" ELSE "ok")
  /\ UNCHANGED <<ctrls, instance, daemon, pc>>

\* the runtime destroys a link object whose __init__ raised
LinkDel(l) ==
  /\ pc = None
  /\ links[l].st = "failed"
  /\ SetHeap(DelLink(Heap, l))
  /\ UNCHANGED <<ctrls, instance, daemon, pc, last>>

\* a link-binding process exits on its own and is reaped: its pid is gone and
\* the kernel drops its interface
ChildExit(l) ==
  /\ procs[l] = "running"
  /\ procs' = [procs EXCEPT ![l] = "gone"]
  /\ ifaces' = ifaces \ {links[l].link_name}
  /\ UNCHANGED <<links, assigned_links, allocated_eids, ctrls, instance,
                 daemon, pc, last>>

\* MctpBusController.__init__, up to the provisioning loop
CtorBegin(cfg, args) ==
  /\ pc = None
  /\ NoGarbage
  /\ NextCtrl # None
  /\ LET c    == NextCtrl
         conf == ConfigureEidRange(cfg)
         err  == BeginError(args, conf)
     IN  IF err = "ok"
         THEN /\ ctrls' = [ctrls EXCEPT ![c] =
                    [UnbornCtrl EXCEPT
                       !.st = "ProvisioningLinks",
                       !.eid_range = conf.eid_range,
                       !.file_list = FileList(args)]]
              /\ pc' = c
              /\ last' = [Call("ctor", c, "pending") EXCEPT
                            !.config = ConfigGiven(cfg),
                            !.matched = Matched(args),
                            !.short = Cardinality(FileList(args)) >
                                      Cardinality(conf.eid_range \
                                                  SeqToSet(allocated_eids))]
         ELSE /\ ctrls' = [ctrls EXCEPT ![c] = UnbornCtrl]
              /\ pc' = None
              /\ last' = [Call("ctor", c, err) EXCEPT
                            !.config = IF err \in {"Singleton", "NoPatterns"}
                                       THEN "none" ELSE ConfigGiven(cfg),
                            !.matched = IF err \in {"Singleton", "NoPatterns"}
                                        THEN {} ELSE Matched(args)]
  /\ UNCHANGED <<links, assigned_links, allocated_eids, procs, ifaces,
                 instance, daemon>>

\* one turn of the provisioning loop: MctpSerialLink(file_path, self._eid_range)
CtorOpenLink(path, env, next_eid) ==
  /\ pc # None
  /\ ctrls[pc].st = "ProvisioningLinks"
  /\ path \in ctrls[pc].file_list
  /\ NextLink # None
  /\ next_eid \in NextEids(ctrls[pc].eid_range)
  /\ LET c == pc
         l == NextLink
         r == OpenLink(Heap, l, path, ctrls[c].eid_range, env, next_eid)
         rest == ctrls[c].file_list \ {path}
     IN  /\ SetHeap(r.h)
         /\ IF r.err = "ok"
            THEN /\ ctrls' = [ctrls EXCEPT ![c] =
                       [@ EXCEPT !.serial_links = Append(@, l),
                                 !.file_list = rest,
                                 !.st = IF rest = {} THEN "RestartingDaemon"
                                        ELSE "ProvisioningLinks"]]
                 /\ last' = [last EXCEPT !.spawned = TRUE]
                 /\ pc' = pc
            ELSE /\ ctrls' = [ctrls EXCEPT ![c] = UnbornCtrl]
                 /\ pc' = None
                 /\ last' = [last EXCEPT !.err = r.err,
                                         !.spawned = @ \/ r.h.procs[l] = "running"]
  /\ UNCHANGED <<instance, daemon>>

\* stop mctpd if it is active, start it, connect to the bus, start the clock
CtorRestartDaemon ==
  /\ pc # None
  /\ ctrls[pc].st = "RestartingDaemon"
  /\ ctrls' = [ctrls EXCEPT ![pc] =
        [@ EXCEPT !.st = "AwaitingStabilization",
                  !.previous_count = InitialPreviousCount,
                  !.elapsed = 0]]
  /\ daemon' = TRUE
  /\ last' = [last EXCEPT !.daemon_ops = DaemonOps(daemon)]
  /\ UNCHANGED <<links, assigned_links, allocated_eids, procs, ifaces,
                 instance, pc>>

\* one turn of the stabilization loop: a walk that takes d seconds and returns
\* count endpoints, or fails on the bus (reachable = FALSE)
CtorPoll(reachable, count, d) ==
  /\ pc # None
  /\ ctrls[pc].st = "AwaitingStabilization"
  /\ LET c   == pc
         now == ctrls[c].elapsed + d
     IN  IF ~reachable
         THEN \* _introspect raises: __init__ ends with the bus error
              /\ ctrls' = [ctrls EXCEPT ![c] = UnbornCtrl]
              /\ pc' = None
              /\ last' = [last EXCEPT !.err = "CommunicationError"]
              /\ UNCHANGED <<links, assigned_links, allocated_eids, procs,
                             ifaces, instance, daemon>>
         ELSE IF Stable(count, ctrls[c].previous_count)
         THEN \* break; MctpBusController._instance = self
              /\ ctrls' = [ctrls EXCEPT ![c] =
                    [@ EXCEPT !.st = "Ready",
                              !.previous_count = InitialPreviousCount,
                              !.elapsed = 0]]
              /\ instance' = c
              /\ pc' = None
              /\ last' = [last EXCEPT !.err = "ok",
                                      !.polls = LastTwo(@, count),
                                      !.late = TimedOut(now)]
              /\ UNCHANGED <<links, assigned_links, allocated_eids, procs,
                             ifaces, daemon>>
         ELSE IF TimedOut(now)
         THEN \* self.close(); raise AssertionError
              LET r == CloseCtrl(Heap, ctrls[c].serial_links)
              IN  /\ SetHeap(r.h)
                  /\ ctrls' = [ctrls EXCEPT ![c] = UnbornCtrl]
                  /\ pc' = None
                  /\ IF r.raised
                     THEN /\ last' = [last EXCEPT
                                        !.err = "ProcessLookupError",
                                        !.polls = LastTwo(@, count),
                                        !.late = TRUE]
                          /\ UNCHANGED <<instance, daemon>>
                     ELSE /\ last' = [last EXCEPT
                                        !.err = "StabilizationTimeout",
                                        !.polls = LastTwo(@, count),
                                        !.late = TRUE,
                                        !.daemon_ops = Append(@, "stop")]
                          /\ daemon' = FALSE
                          /\ instance' = ClearedInstance(c)
         ELSE \* previous_count = current_count; time.sleep(1)
              /\ ctrls' = [ctrls EXCEPT ![c] =
                    [@ EXCEPT !.previous_count = count,
                              !.elapsed = now + PollInterval]]
              /\ last' = [last EXCEPT !.polls = LastTwo(@, count)]
              /\ UNCHANGED <<links, assigned_links, allocated_eids, procs,
                             ifaces, instance, daemon, pc>>

\* MctpBusController.close() on a controller the caller holds
CtrlClose(c) ==
  /\ pc = None
  /\ NoGarbage
  /\ ctrls[c].st \in {"Ready", "Closed"}
  /\ LET r == CloseCtrl(Heap, ctrls[c].serial_links)
     IN  /\ SetHeap(r.h)
         /\ IF r.raised
            THEN /\ last' = Call("ctrl_close", c, "ProcessLookupError")
                 /\ UNCHANGED <<ctrls, instance, daemon>>
            ELSE /\ ctrls' = [ctrls EXCEPT ![c] =
                       [UnbornCtrl EXCEPT !.st = "Closed"]]
                 /\ daemon' = FALSE
                 /\ instance' = ClearedInstance(c)
                 /\ last' = Call("ctrl_close", c, "ok")
  /\ UNCHANGED pc

Next ==
  \/ \E path \in StandalonePaths, allowed \in SUBSET Eids, env \in OpenEnvs :
        \E e \in NextEids(allowed) : LinkOpen(path, allowed, env, e)
  \/ \E l \in LinkIds : LinkClose(l)
  \/ \E l \in LinkIds : LinkDel(l)
  \/ \E l \in LinkIds : ChildExit(l)
  \/ \E cfg \in Configs, args \in ArgLists : CtorBegin(cfg, args)
  \/ \E path \in Paths, env \in OpenEnvs, e \in Eids \cup {None} :
        CtorOpenLink(path, env, e)
  \/ CtorRestartDaemon
  \/ \E reachable \in BOOLEAN, count \in Counts, d \in 0..MaxWalk :
        CtorPoll(reachable, count, d)
  \/ \E c \in CtrlIds : CtrlClose(c)

Spec == Init /\ [][Next]_vars

----------------------------------------------------------------------------
(* Discovery: discover_endpoints, _walk_tree, _get_properties *)

\* self._dbus_root = '/au/com/codeconstruct/mctp1', as separators and names
RootPath == <<"/", "au", "/", "com", "/", "codeconstruct", "/", "mctp1">>

\* the node names of the object tree of mctpd, in the order Introspect lists
\* the children of a node
NodeNames == <<"endpoints", "net">>

\* the nodes of tree t a child can hang from: its nodes and the root
BusNodesOf(t) == t \cup {<<>>}

\* the trees of at most n nodes below the root: a tree is the set of its nodes,
\* a node the sequence of names that leads to it from the root
RECURSIVE BusTrees(_)
BusTrees(n) ==
  IF n = 0 THEN { {} }
  ELSE LET smaller == BusTrees(n - 1)
       IN  smaller \cup
           UNION { { t \cup {Append(p, NodeNames[k])} :
                       p \in BusNodesOf(t), k \in DOMAIN NodeNames } :
                   t \in smaller }

\* what Properties.Get answers for an endpoint node, by the node's name: the
\* EID of the endpoint, or None for a DBusException
BusReads == [SeqToSet(NodeNames) -> Eids \cup {None}]

\* f"{path}/{child}" if not path.endswith('/') else f"{path}{child}"
ChildPath(path, child) ==
  IF path[Len(path)] # "/" THEN path \o <<"/", child>> ELSE path \o <<child>>

\* a variant that looks for '/endpoints' without the closing separator
MarkerWithoutSlash(child_path) ==
  \E i \in 1..(Len(child_path) - 1) :
    SubSeq(child_path, i, i + 1) = <<"/", "endpoints">>

\* '/endpoints/' in child_path
Marker(child_path) ==
  \E i \in 1..(Len(child_path) - 2) :
    SubSeq(child_path, i, i + 2) = <<"/", "endpoints", "/">>

\* _introspect(path) at node: the names of the children of the node
Introspect(bus, node) ==
  SelectSeq(NodeNames, LAMBDA n : Append(node, n) \in bus.tree)

\* a variant that searches the process-wide registry
GetLinkFromRegistry(h, owned, eid) ==
  IF \E i \in DOMAIN h.assigned_links : h.links[h.assigned_links[i]].eid = eid
  THEN h.assigned_links[CHOOSE i \in DOMAIN h.assigned_links :
                          h.links[h.assigned_links[i]].eid = eid]
  ELSE None

\* _get_link_from_eid(eid): the first link of self._serial_links whose
\* get_eid() equals eid, or None
GetLinkFromEid(h, owned, eid) ==
  IF \E i \in DOMAIN owned : h.links[owned[i]].eid = eid
  THEN owned[CHOOSE i \in DOMAIN owned :
               /\ h.links[owned[i]].eid = eid
               /\ \A j \in 1..(i-1) : h.links[owned[j]].eid # eid]
  ELSE None

\* _get_properties(path) at node: <<>> stands for None; an entry is a record
\* that has the fields link_name and device_path only when a link was found
\* (the network id, read with the EID, is left out of the entry)
GetProperties(h, owned, bus, node, path) ==
  LET eid == bus.read[node[Len(node)]]
  IN  IF eid = None THEN <<>>
      ELSE LET serial_link == GetLinkFromEid(h, owned, eid)
           IN  IF serial_link # None
               THEN << [eid |-> eid, path |-> path,
                        link_name |-> h.links[serial_link].link_name,
                        device_path |-> h.links[serial_link].device_path] >>
               ELSE << [eid |-> eid, path |-> path] >>

\* what a walk has done: the entries it returns, and the nodes it has queried
\* and introspected, in order
NoWalk == [results |-> <<>>, queried |-> <<>>, introspected |-> <<>>]

JoinWalks(a, b) ==
  [results |-> a.results \o b.results,
   queried |-> a.queried \o b.queried,
   introspected |-> a.introspected \o b.introspected]

\* _walk_tree(path) at node; WalkChildren is its for loop from the i-th child on
RECURSIVE WalkTree(_, _, _, _, _)
RECURSIVE WalkChildren(_, _, _, _, _, _, _)
WalkTree(h, owned, bus, node, path) ==
  JoinWalks([NoWalk EXCEPT !.introspected = <<node>>],
            WalkChildren(h, owned, bus, node, path, Introspect(bus, node), 1))

WalkChildren(h, owned, bus, node, path, children, i) ==
  IF i > Len(children) THEN NoWalk
  ELSE LET child      == children[i]
           child_node == Append(node, child)
           child_path == ChildPath(path, child)
           this == IF Marker(child_path)
                   THEN [NoWalk EXCEPT
                           !.results = GetProperties(h, owned, bus, child_node,
                                                     child_path),
                           !.queried = <<child_node>>]
                   ELSE WalkTree(h, owned, bus, child_node, child_path)
       IN  JoinWalks(this,
                     WalkChildren(h, owned, bus, node, path, children, i + 1))

\* discover_endpoints(): the walk from the root
DiscoverEndpoints(h, owned, bus) == WalkTree(h, owned, bus, <<>>, RootPath)

\* the registries and objects before anything is constructed
EmptyHeap ==
  [links |-> [l \in LinkIds |-> UnbornLink], assigned_links |-> <<>>,
   allocated_eids |-> <<>>, procs |-> [l \in LinkIds |-> "none"], ifaces |-> {}]

\* the states discovery is called in: controller 1 is Ready on one or two
\* device paths with the range 1..MaxEid; a caller may have opened a link of
\* its own after it, and may have closed the controller's first link through
\* the registry
DiscoveryHeap(closed, second, e1, e2) ==
  LET h1 == OpenLink(EmptyHeap, 1, "ttyUSB0", Eids, "ok", e1).h
      h2 == IF second = "none" \/ e2 = e1 THEN h1
            ELSE OpenLink(h1, 2,
                          IF second = "owned" THEN "ttyUSB1" ELSE "ttyUSB0",
                          Eids, "ok", e2).h
  IN  [h |-> IF closed THEN CloseLink(h2, 1).h ELSE h2,
       owned |-> IF second = "owned" /\ e2 # e1 THEN <<1, 2>> ELSE <<1>>]

DiscoveryHeaps ==
  { DiscoveryHeap(closed, second, e1, e2) :
      closed \in BOOLEAN, second \in {"none", "owned", "standalone"},
      e1 \in Eids, e2 \in Eids }

InitDiscover ==
  \E s \in DiscoveryHeaps :
    /\ links = s.h.links
    /\ assigned_links = s.h.assigned_links
    /\ allocated_eids = s.h.allocated_eids
    /\ procs = s.h.procs
    /\ ifaces = s.h.ifaces
    /\ ctrls = [c \in CtrlIds |->
                 IF c = 1 THEN [UnbornCtrl EXCEPT !.st = "Ready",
                                                  !.eid_range = Eids,
                                                  !.serial_links = s.owned]
                 ELSE UnbornCtrl]
    /\ instance = 1
    /\ daemon = TRUE
    /\ pc = None
    /\ last \in { [op |-> "discover", obj |-> 1, err |-> "pending",
                    bus |-> [tree |-> t, read |-> r], found |-> NoWalk] :
                    t \in BusTrees(MaxNodes), r \in BusReads }

\* controller last.obj runs discover_endpoints() on the bus of the call
Discover ==
  /\ last.op = "discover" /\ last.err = "pending"
  /\ last' = [last EXCEPT
                !.err = "ok",
                !.found = DiscoverEndpoints(Heap, ctrls[last.obj].serial_links,
                                            last.bus)]
  /\ UNCHANGED <<links, assigned_links, allocated_eids, procs, ifaces, ctrls,
                 instance, daemon, pc>>

NextDiscover == Discover

DiscoverSpec == InitDiscover /\ [][NextDiscover]_vars

----------------------------------------------------------------------------
(* _configure_eid_range on its own: a controller object reads a config file *)

\* no link and no controller has been constructed
NothingConstructed ==
  /\ links = [l \in LinkIds |-> UnbornLink]
  /\ assigned_links = <<>>
  /\ allocated_eids = <<>>
  /\ procs = [l \in LinkIds |-> "none"]
  /\ ifaces = {}
  /\ ctrls = [c \in CtrlIds |-> UnbornCtrl]
  /\ instance = None
  /\ daemon = FALSE
  /\ pc = None

InitParse ==
  /\ NothingConstructed
  /\ last \in { [op |-> "parse", file |-> f, err |-> "pending", eid_range |-> {}] :
                  f \in ConfigFiles }

\* self._configure_eid_range(config_file_path): err is the exception its try
\* block ended with ("none": none)
ParseConfig ==
  /\ last.op = "parse" /\ last.err = "pending"
  /\ LET r == ParseEidRange(ReadConfig(last.file))
     IN  last' = [last EXCEPT !.err = r.exc,
                              !.eid_range = ConfigureEidRange(ReadConfig(last.file)).eid_range]
  /\ UNCHANGED <<links, assigned_links, allocated_eids, procs, ifaces, ctrls,
                 instance, daemon, pc>>

NextParse == ParseConfig

ParseSpec == InitParse /\ [][NextParse]_vars

----------------------------------------------------------------------------
(* _wait_for_new_interface on its own: the polling loop of an open() *)

\* a variant that does not remove the interfaces that existed before
NewInterfacesUnfiltered(initial, current) == current

\* new_interfaces = current - initial_interfaces
NewInterfaces(initial, current) == current \ initial

\* while time.time() - start_time < timeout
WaitRunning(elapsed) == elapsed < WaitTimeoutMs

\* the snapshot initial is any set of interface names; elapsed is the time since
\* start_time, name the result
InitWait ==
  /\ NothingConstructed
  /\ last \in { [op |-> "wait", initial |-> i, elapsed |-> 0, name |-> None,
                  err |-> "pending"] : i \in SUBSET IfNames }

\* one turn of the loop: the OS lists current, the query taking d ms; the wait
\* returns a new name (new_interfaces.pop() takes any), or sleeps
WaitPoll(current, d, n) ==
  /\ last.op = "wait" /\ last.err = "pending"
  /\ WaitRunning(last.elapsed)
  /\ LET new_interfaces == NewInterfaces(last.initial, current)
     IN  IF new_interfaces # {}
         THEN /\ n \in new_interfaces
              /\ last' = [last EXCEPT !.name = n, !.err = "returned"]
         ELSE /\ n = None
              /\ last' = [last EXCEPT !.elapsed = @ + d + WaitSleepMs]
  /\ UNCHANGED <<links, assigned_links, allocated_eids, procs, ifaces, ctrls,
                 instance, daemon, pc>>

\* the loop ends on the clock: return None, and open() raises the timeout error
WaitExpire ==
  /\ last.op = "wait" /\ last.err = "pending"
  /\ ~WaitRunning(last.elapsed)
  /\ last' = [last EXCEPT !.name = None, !.err = "IfTimeout"]
  /\ UNCHANGED <<links, assigned_links, allocated_eids, procs, ifaces, ctrls,
                 instance, daemon, pc>>

NextWait ==
  \/ \E current \in SUBSET IfNames, d \in {0, MaxQueryMs},
         n \in IfNames \cup {None} : WaitPoll(current, d, n)
  \/ WaitExpire

WaitSpec == InitWait /\ [][NextWait]_vars

----------------------------------------------------------------------------
(* Properties *)

\* a live link: opened successfully and not yet closed
Live(l) == links[l].st = "active"

LiveLinks == { l \in LinkIds : Live(l) }

\* an operational controller: Ready and not closed
Operational(c) == ctrls[c].st = "Ready"

\* the step is a call of MctpBusController(...): it starts the construction
\* of controller c, or fails at once
CtorCall(c) ==
  /\ pc = None
  /\ last'.op = "ctor" /\ last'.obj = c
  /\ last' # last \/ pc' # None

\* the step is a call of close() on controller c
CtrlCloseCall(c) ==
  /\ pc = None
  /\ last'.op = "ctrl_close" /\ last'.obj = c
  /\ last' # last

\* the step is one poll of the stabilization loop of controller c
PollStep(c) ==
  /\ pc = c
  /\ ctrls[c].st = "AwaitingStabilization"
  /\ last'.polls # last.polls

\* C1: no two live links (opened successfully, not yet closed) hold the same
\* EID, whatever opens (successful or failing at any step) and closes came
\* before.
C1_NoSharedEid ==
  \A l1 \in LinkIds, l2 \in LinkIds :
    (l1 # l2 /\ Live(l1) /\ Live(l2)) =>
      /\ links[l1].eid # None
      /\ links[l1].eid # links[l2].eid

\* C1 witness: two links are live at once, the second opened after an earlier
\* link was closed and its EID released.
C1_Witness ==
  /\ Cardinality(LiveLinks) = 2
  /\ \E l \in LinkIds : links[l].st = "closed"
  /\ last.op = "link_open" /\ last.err = "ok"

C3_AtMostOneOperational ==
  Cardinality({ c \in CtrlIds : Operational(c) }) <= 1

\* C4: a construction attempted while an operational controller exists fails
\* at once: it raises before the provisioning loop, binds no link, leaves the
\* EID pool and the registry unchanged, does not touch the daemon, and leaves
\* the singleton slot as it is.
C4_SecondConstructionRejected ==
  [][ \A c \in CtrlIds :
        (CtorCall(c) /\ \E d \in CtrlIds : Operational(d)) =>
          /\ last'.err \notin {"pending", "ok"}
          /\ pc' = None
          /\ UNCHANGED <<links, assigned_links, allocated_eids, procs, ifaces,
                         instance, daemon>>
    ]_vars

\* C5: after close() on a Ready controller every link it owned is closed (no
\* EID of theirs is allocated, none is in the registry, no binding process of
\* theirs runs), the daemon is stopped and the singleton slot is clear.
C5_CloseReleasesEverything ==
  [][ \A c \in CtrlIds :
        (CtrlCloseCall(c) /\ Operational(c)) =>
          /\ \A i \in DOMAIN ctrls[c].serial_links :
               LET l == ctrls[c].serial_links[i]
               IN  /\ links[l].eid # None =>
                         ~Contains(allocated_eids', links[l].eid)
                   /\ ~Contains(assigned_links', l)
                   /\ procs'[l] # "running"
          /\ ~daemon'
          /\ instance' = None
          /\ ~Operational(c)'
    ]_vars

\* C6: close() of a serial link never fails, in whatever state the link is;
\* afterwards the link holds no EID, is absent from the registry and has its
\* identity fields cleared.
C6_LinkCloseNeverFails ==
  last.op = "link_close" =>
    /\ last.err = "ok"
    /\ links[last.obj].eid = None
    /\ links[last.obj].link_pid = None
    /\ links[last.obj].link_name = None
    /\ links[last.obj].device_path = NoPath
    /\ ~Contains(assigned_links, last.obj)

\* C7: the stabilization loop stops, and the controller becomes Ready, exactly
\* when a poll returns the count of the poll before it: never on the first
\* poll, also when both counts are zero; while the counts differ it keeps
\* polling, until the timeout ends the construction.
C7_StableOnEqualCounts ==
  [][ \A c \in CtrlIds :
        PollStep(c) =>
          LET two   == last'.polls
              equal == Len(two) = 2 /\ two[1] = two[2]
          IN  /\ Operational(c)' <=> equal
              /\ ~equal => \/ ctrls'[c].st = "AwaitingStabilization" /\ pc' = c
                           \/ last'.late /\ ctrls'[c].st = "unborn"
    ]_vars

\* C7 witness: a controller is Ready on two consecutive counts of zero.
C7_Witness ==
  /\ last.op = "ctor" /\ last.err = "ok"
  /\ last.polls = <<0, 0>>
  /\ Operational(last.obj)

\* C8: the controller never becomes Ready on a poll that ended after the
\* 30-second stabilization window.
C8_NeverReadyAfterWindow ==
  (last.op = "ctor" /\ last.err = "ok") => ~last.late

\* C9: when the matched device paths outnumber the EIDs of the range that are
\* not allocated, the construction aborts before it has run any link-binding
\* process or called the service manager.
C9_ShortAbortsBeforeBinding ==
  (last.op = "ctor" /\ last.short) =>
    /\ ~last.spawned
    /\ last.daemon_ops = <<>>
    /\ last.err # "ok"

\* C10: with an unusable config source, a construction that passes the
\* singleton and pattern checks fails with a configuration error, not with a
\* later device-matching or not-enough-EIDs error.
C10_UnusableConfigIsConfigError ==
  (last.op = "ctor" /\ last.config = "unusable") => last.err = "ConfigError"

\* the first line of a file that starts with the keyword, or None
FirstKeywordLine(file) ==
  IF \E i \in DOMAIN file.lines : file.lines[i].kind # "other"
  THEN CHOOSE i \in DOMAIN file.lines :
         /\ file.lines[i].kind # "other"
         /\ \A j \in 1..(i-1) : file.lines[j].kind = "other"
  ELSE None

\* C11: for a pair (a, b) on the first dynamic_eid_range line with a > 0 and
\* b > 0, parsing accepts and yields the inclusive range between the smaller
\* and the larger, of size |a - b| + 1; when a = 0 or b = 0 the declaration is
\* rejected and no range results.
C11_ParseYieldsInclusiveRange ==
  (last.op = "parse" /\ last.err # "pending" /\ last.file.exists
     /\ FirstKeywordLine(last.file) # None) =>
    LET line == last.file.lines[FirstKeywordLine(last.file)]
        a    == line.a
        b    == line.b
    IN  line.kind = "pair" =>
          IF a > 0 /\ b > 0
          THEN /\ last.err = "none"
               /\ \A e \in 0..(MaxEid + 1) :
                    e \in last.eid_range <=>
                      ((a <= e /\ e <= b) \/ (b <= e /\ e <= a))
               /\ Cardinality(last.eid_range) =
                    (IF a >= b THEN a - b ELSE b - a) + 1
          ELSE /\ last.err # "none"
               /\ last.eid_range = {}

\* C11 witness: a file whose first keyword line holds a pair in descending
\* order, followed by a keyword line with another pair, has been parsed.
C11_Witness ==
  /\ last.op = "parse" /\ last.err = "none"
  /\ Len(last.file.lines) = 2
  /\ last.file.lines[1].kind = "pair" /\ last.file.lines[2].kind = "pair"
  /\ last.file.lines[1].a > last.file.lines[1].b
  /\ last.file.lines[2].a = 0
  /\ Cardinality(last.eid_range) = 2

\* the place of link l in the registry (0: not registered)
RegistryIndex(l) ==
  IF Contains(assigned_links, l)
  THEN CHOOSE i \in DOMAIN assigned_links : assigned_links[i] = l
  ELSE 0

\* C12: when a construction has reached Ready the controller owns exactly one
\* live link per distinct matched device path, the links were registered one
\* after another in the order they were opened, and they hold pairwise
\* distinct EIDs of the configured range; a construction whose patterns match
\* nothing fails and opens no link.
C12_OneLinkPerMatchedPath ==
  /\ (last.op = "ctor" /\ last.err = "ok") =>
       LET c     == last.obj
           owned == ctrls[c].serial_links
       IN  /\ Len(owned) = Cardinality(last.matched)
           /\ { links[owned[i]].device_path : i \in DOMAIN owned } = last.matched
           /\ \A i \in DOMAIN owned :
                /\ Live(owned[i])
                /\ links[owned[i]].eid \in ctrls[c].eid_range
           /\ \A i \in DOMAIN owned, j \in DOMAIN owned :
                i < j => /\ links[owned[i]].eid # links[owned[j]].eid
                         /\ RegistryIndex(owned[i]) < RegistryIndex(owned[j])
  /\ (last.op = "ctor" /\ last.matched = {}) =>
       /\ last.err \notin {"ok", "pending"}
       /\ ~last.spawned
       /\ ctrls[last.obj].serial_links = <<>>

\* C12 witness: a controller is Ready on two matched device paths and owns two
\* links, after a link that held an EID of its range was closed.
C12_Witness ==
  /\ last.op = "ctor" /\ last.err = "ok"
  /\ Cardinality(last.matched) = 2
  /\ Len(ctrls[last.obj].serial_links) = 2
  /\ \E l \in LinkIds : links[l].st = "closed"


\* the step is a discovery walk of the construction of controller c
WalkStep(c) ==
  /\ pc = c
  /\ ctrls[c].st = "AwaitingStabilization"
  /\ ctrls'[c] # ctrls[c]

\* C13: in a construction the daemon is started only when every matched path
\* has a successfully opened link, the start is preceded by a stop exactly
\* when the daemon was active, and no discovery walk runs before the start
\* has been issued.
C13_DaemonStartedAfterLinks ==
  [][ \A c \in CtrlIds :
        /\ (pc = c /\ last.daemon_ops = <<>> /\ last'.daemon_ops # <<>>) =>
             /\ { links[ctrls[c].serial_links[i]].device_path :
                    i \in DOMAIN ctrls[c].serial_links } = last.matched
             /\ \A i \in DOMAIN ctrls[c].serial_links :
                  Live(ctrls[c].serial_links[i])
             /\ last'.daemon_ops =
                  (IF daemon THEN <<"stop">> ELSE <<>>) \o <<"start">>
             /\ last'.polls = <<>>
        /\ WalkStep(c) =>
             /\ Len(last.daemon_ops) > 0
             /\ last.daemon_ops[Len(last.daemon_ops)] = "start"
    ]_vars

\* C13 witness: a controller with two links is Ready after a stop and a start
\* of the daemon.
C13_Witness ==
  /\ last.op = "ctor" /\ last.err = "ok"
  /\ last.daemon_ops = <<"stop", "start">>
  /\ Len(ctrls[last.obj].serial_links) = 2

\* a discovery call has returned
Discovered == last.op = "discover" /\ last.err = "ok"

\* C14: every entry a discovery returns carries the interface name and the
\* device path of the live link its controller owns that holds the entry's
\* EID, and neither field when no live link the controller owns holds it.
C14_EntriesCorrelated ==
  Discovered =>
    \A i \in DOMAIN last.found.results :
      LET entry   == last.found.results[i]
          owned   == SeqToSet(ctrls[last.obj].serial_links)
          holders == { l \in owned : Live(l) /\ links[l].eid = entry.eid }
      IN  IF holders # {}
          THEN /\ "link_name" \in DOMAIN entry
               /\ "device_path" \in DOMAIN entry
               /\ \E l \in holders :
                    /\ entry.link_name = links[l].link_name
                    /\ entry.device_path = links[l].device_path
          ELSE /\ "link_name" \notin DOMAIN entry
               /\ "device_path" \notin DOMAIN entry

\* C14 witness: a discovery has returned an entry with the fields of an owned
\* link and an entry without them whose EID a link of another owner holds.
C14_Witness ==
  /\ Discovered
  /\ \E i \in DOMAIN last.found.results :
       "link_name" \in DOMAIN last.found.results[i]
  /\ \E i \in DOMAIN last.found.results :
       /\ "link_name" \notin DOMAIN last.found.results[i]
       /\ \E l \in LiveLinks : links[l].eid = last.found.results[i].eid

\* a node whose path holds the marker: a name "endpoints" with more after it
EndpointNode(n) == \E i \in 1..(Len(n) - 1) : n[i] = "endpoints"

\* a node no proper ancestor of which is an endpoint node
ReachedNode(n) == \A k \in 1..(Len(n) - 1) : ~EndpointNode(SubSeq(n, 1, k))

\* the object path of a node
RECURSIVE PathString(_)
PathString(n) ==
  IF n = <<>> THEN RootPath
  ELSE PathString(SubSeq(n, 1, Len(n) - 1)) \o <<"/", n[Len(n)]>>

\* sequence q lists every element of set S once and nothing else
ListsOnce(q, S) == SeqToSet(q) = S /\ Len(q) = Cardinality(S)

\* C15: a walk returns exactly one entry for each endpoint node that is reached
\* through no other endpoint node and whose property read succeeds; endpoint
\* nodes so reached are queried once and never introspected, the root and the
\* other nodes are introspected once and never queried, and a failed read
\* leaves out only its own endpoint.
C15_WalkReturnsReachedEndpoints ==
  Discovered =>
    LET tree     == last.bus.tree
        found    == last.found
        reached  == { n \in tree : EndpointNode(n) /\ ReachedNode(n) }
        readable == { n \in reached : last.bus.read[n[Len(n)]] # None }
    IN  /\ ListsOnce([i \in DOMAIN found.results |-> found.results[i].path],
                     { PathString(n) : n \in readable })
        /\ \A i \in DOMAIN found.results :
             \E n \in readable :
               /\ found.results[i].path = PathString(n)
               /\ found.results[i].eid = last.bus.read[n[Len(n)]]
        /\ ListsOnce(found.queried, reached)
        /\ ListsOnce(found.introspected,
                     {<<>>} \cup { n \in tree : ~EndpointNode(n) })

\* C15 witness: a walk has returned one of two sibling endpoints, the read of
\* the other having failed, from a tree with a node below an endpoint node.
C15_Witness ==
  /\ Discovered
  /\ Len(last.found.results) = 1
  /\ Len(last.found.queried) = 2
  /\ \E n \in last.bus.tree :
       EndpointNode(n) /\ ~ReachedNode(n)

\* C16: when a construction fails, no link-binding process of a link it had
\* bound is left running and no EID it had allocated remains allocated.
C16_FailedConstructionReleases ==
  [][ \A c \in CtrlIds :
        (pc = c /\ pc' = None /\ last'.err # "ok") =>
          \A i \in DOMAIN ctrls[c].serial_links :
            LET l == ctrls[c].serial_links[i]
            IN  /\ procs'[l] # "running"
                /\ links[l].eid # None =>
                     ~Contains(allocated_eids', links[l].eid)
    ]_vars

\* the step is a call of MctpSerialLink(...) by a caller, on the new object l
LinkOpenCall(l) ==
  /\ pc = None
  /\ last'.op = "link_open" /\ last'.obj = l
  /\ links[l].st = "unborn" /\ links'[l].st # "unborn"

\* C17: open() validates the device path first: with a device path that does
\* not exist it fails with NotFound whatever the state of the EID pool, runs
\* no binding process and leaves the pool unchanged; it reports the lack of a
\* free EID only after the interface of the link has come up.
C17_PathValidatedFirst ==
  [][ \A l \in LinkIds :
        LinkOpenCall(l) =>
          /\ last'.missing =>
               /\ last'.err = "NotFound"
               /\ UNCHANGED <<procs, allocated_eids>>
          /\ last'.err = "NoEid" => links'[l].link_name # None
    ]_vars

\* the step constructs the link object l: MctpSerialLink(...) called by a
\* caller or by the provisioning loop of a controller
OpenStep(l) == links[l].st = "unborn" /\ links'[l].st # "unborn"

\* the step destroys the link object l
DelStep(l) == links[l].st # "unborn" /\ links'[l].st = "unborn"

\* C18: an open() that fails, at whatever step, leaves the allocated EIDs and
\* the registry exactly as they were, also when the failed object is
\* destroyed; an open() that succeeds appends the link to the registry and
\* its EID to the allocated EIDs.
C18_FailedOpenLeavesRegistries ==
  [][ \A l \in LinkIds :
        /\ OpenStep(l) =>
             IF Live(l)'
             THEN /\ assigned_links' = Append(assigned_links, l)
                  /\ allocated_eids' = Append(allocated_eids, links'[l].eid)
                  /\ links'[l].eid # None
             ELSE UNCHANGED <<assigned_links, allocated_eids>>
        /\ (DelStep(l) /\ links[l].st = "failed") =>
             UNCHANGED <<assigned_links, allocated_eids>>
    ]_vars

\* C18 witness: an open() has failed at the address assignment, after its
\* binding process was spawned, while another link holds an EID.
C18_Witness ==
  /\ last.op = "link_open" /\ last.err = "AddrFailed"
  /\ links[last.obj].st = "failed"
  /\ links[last.obj].link_pid # None
  /\ Len(allocated_eids) = 1 /\ Len(assigned_links) = 1

\* the step is one turn, or the end, of the wait loop
WaitStep == last.op = "wait" /\ last.err = "pending" /\ last' # last

\* C19: the interface wait ends: every turn that does not return moves the
\* clock on by at least the sleep interval, and once the 2 s have elapsed the
\* wait returns None and open() fails with the timeout error; a name it
\* returns was absent from the snapshot taken before the bind.
C19_WaitEndsWithNewNameOrTimeout ==
  [][ WaitStep =>
        /\ last'.err = "returned" =>
             /\ last'.name # None
             /\ last'.name \notin last.initial
             /\ last.elapsed < WaitTimeoutMs
        /\ last'.err = "IfTimeout" =>
             /\ last'.name = None
             /\ last.elapsed >= WaitTimeoutMs
        /\ last'.err = "pending" =>
             /\ last'.elapsed >= last.elapsed + WaitSleepMs
             /\ last'.elapsed < WaitTimeoutMs + WaitSleepMs + MaxQueryMs
        /\ last.elapsed >= WaitTimeoutMs => last'.err = "IfTimeout"
    ]_vars

\* C19 witness: a wait whose snapshot held an interface has returned a name
\* after turns that found nothing new.
C19_Witness ==
  /\ last.op = "wait" /\ last.err = "returned"
  /\ last.initial # {}
  /\ last.elapsed > WaitSleepMs

\* C20: a construction whose config yields no usable EID range (file missing,
\* keyword line absent, malformed, or a zero bound) fails before its
\* provisioning loop whatever its patterns match: it spawns no link-binding
\* process, calls the service manager neither to stop nor to start the daemon,
\* walks the bus not once, and leaves no controller behind.
C20_UnusableConfigBuildsNothing ==
  (last.op = "ctor" /\ last.config = "unusable") =>
     /\ ~last.spawned
     /\ last.daemon_ops = <<>>
     /\ last.polls = <<>>
     /\ last.err \notin {"ok", "pending"}
     /\ pc = None
     /\ ctrls[last.obj].st = "unborn"

\* C20 witness: a construction with such a config and patterns that match a
\* device has failed, while a free link slot remained.
C20_Witness ==
  /\ last.op = "ctor" /\ last.config = "unusable"
  /\ last.matched # {}
  /\ last.err = "NotEnoughEids"
  /\ NextLink # None

\* the step is the poll of controller c on which the stabilization loop gives
\* up: the counts differ and the window has passed
TimeoutStep(c) ==
  /\ PollStep(c)
  /\ last'.late
  /\ last'.err \notin {"ok", "pending"}

\* C21: when stabilization times out the controller closes every link it
\* provisioned (no EID of theirs stays allocated, none stays registered, no
\* binding process of theirs runs) and stops the daemon before the timeout
\* failure reaches the caller, and the singleton slot is clear afterwards.
C21_TimeoutClosesEverything ==
  [][ \A c \in CtrlIds :
        TimeoutStep(c) =>
          /\ \A i \in DOMAIN ctrls[c].serial_links :
               LET l == ctrls[c].serial_links[i]
               IN  /\ links[l].eid # None =>
                         ~Contains(allocated_eids', links[l].eid)
                   /\ ~Contains(assigned_links', l)
                   /\ procs'[l] # "running"
          /\ ~daemon'
          /\ instance' = None
          /\ last'.err = "StabilizationTimeout"
    ]_vars

\* a list without duplicates
NoDuplicates(s) == \A i \in DOMAIN s, j \in DOMAIN s : s[i] = s[j] => i = j

\* the links of the active-link registry
Registered == SeqToSet(assigned_links)

\* the registries agree with the links: a link is registered exactly when it
\* holds an EID, and the allocated EIDs are those of the registered links, each
\* listed once
RegistriesConsistent ==
  /\ \A l \in LinkIds : Contains(assigned_links, l) <=> links[l].eid # None
  /\ NoDuplicates(assigned_links)
  /\ NoDuplicates(allocated_eids)
  /\ SeqToSet(allocated_eids) = { links[l].eid : l \in Registered }
  /\ Len(allocated_eids) = Len(assigned_links)

\* a closed link has its identity fields cleared
ClosedCleared ==
  \A l \in LinkIds :
    links[l].st = "closed" =>
      /\ links[l].eid = None
      /\ links[l].link_name = None
      /\ links[l].device_path = NoPath
      /\ links[l].link_pid = None

\* C22: after every open() and close(), completed or failed, a link is in the
\* registry exactly when it holds an EID, the allocated EIDs are exactly the
\* EIDs of the registered links without duplicates, a closed link has no EID,
\* interface name, device path or process handle, and a closed link never
\* becomes active again.
C22_RegistriesConsistent ==
  /\ [](RegistriesConsistent /\ ClosedCleared)
  /\ [][ \A l \in LinkIds : links[l].st = "closed" => links'[l].st # "active" ]_vars

\* C22 witness: an open has just failed while one link is closed and another
\* is active and registered.
C22_Witness ==
  /\ last.op = "link_open" /\ last.err \notin {"ok", "pending"}
  /\ \E l \in LinkIds : links[l].st = "closed"
  /\ \E l \in LinkIds : Live(l) /\ Contains(assigned_links, l)

====
